---------------------------- MODULE Spec2Model ----------------------------
(***************************************************************************)
(* Model of util/md-to-calibre.py: a batch script that reads a Markdown    *)
(* book list, segments it into entry blocks, extracts the fields of each   *)
(* block with one regular expression and imports every record into a       *)
(* Calibre database with two calibredb invocations per record.             *)
(*                                                                         *)
(* Text is a sequence of characters.  An ASCII character is the string of  *)
(* that one character; a character beyond ASCII is the string of U+ and    *)
(* the four hexadecimal digits of its code point, so U+2003 is the em      *)
(* space, and the module itself is ASCII.  An absent value (Python's None) *)
(* is the empty tuple None and a present value v is Some(v) = <<v>>, so    *)
(* that the empty string Some(<<>>) and None stay different.               *)
(***************************************************************************)
EXTENDS Naturals, Sequences, FiniteSets

VARIABLES
    form,              \* how the input file was drawn (NoForm: free lines)
    booklist_lines,    \* line 123: the lines of BOOKLIST_FILE
    pc,                \* the script's position
    i,                 \* step 2: index of the next line of the for loop
    last_line_empty,   \* line 126
    booklist_entries,  \* line 127
    entry,             \* line 128
    j,                 \* step 3: index of the next entry of the for loop
    booklist_dicts,    \* line 148
    k,                 \* step 4: index of the next dict of the for loop
    calls,             \* the calibredb invocations made so far, in order
    title_errors       \* ids logged by log.error in calibredb_title_args

vars == <<form, booklist_lines, pc, i, last_line_empty, booklist_entries,
          entry, j, booklist_dicts, k, calls, title_errors>>

-----------------------------------------------------------------------------
(* Bounds of the model.                                                    *)

MaxLines == 4
MaxTrail == 2

-----------------------------------------------------------------------------
(* Text and optional values.                                               *)

None == <<>>
Some(v) == <<v>>

NL == <<"\n">>

Digits == {"0", "1", "2", "3", "4", "5", "6", "7", "8", "9"}
NonZeroDigits == Digits \ {"0"}
\* Python's \s on str is Unicode whitespace (str.isspace), 29 characters:
\* U+0009 to U+000D, U+001C to U+001F and U+0020, which are ASCII and stand
\* as themselves, and the 19 characters of NonAsciiWhitespace.
VT == ""
AsciiWhitespace == {" ", "\t", "\n", "\r", "\f", VT, "", "", "", ""}
NonAsciiWhitespace ==
    {"U+0085", "U+00A0", "U+1680", "U+2000", "U+2001", "U+2002",
     "U+2003", "U+2004", "U+2005", "U+2006", "U+2007", "U+2008",
     "U+2009", "U+200A", "U+2028", "U+2029", "U+202F", "U+205F",
     "U+3000"}
Whitespace == AsciiWhitespace \cup NonAsciiWhitespace

Max(S) == CHOOSE m \in S : \A n \in S : n <= m

\* Number of consecutive characters of s from position p that are in S:
\* a greedy [S]* at p.
Span(s, p, S) ==
    LET stops == {q \in p..Len(s) : s[q] \notin S}
    IN IF stops = {} THEN (IF p > Len(s) THEN 0 ELSE Len(s) + 1 - p)
       ELSE (CHOOSE q \in stops : \A r \in stops : q <= r) - p

\* Number of consecutive characters of s from position p not in S: a greedy
\* [^S]* at p.
SpanNot(s, p, S) ==
    LET stops == {q \in p..Len(s) : s[q] \in S}
    IN IF stops = {} THEN (IF p > Len(s) THEN 0 ELSE Len(s) + 1 - p)
       ELSE (CHOOSE q \in stops : \A r \in stops : q <= r) - p

\* The literal lit stands in s at position p.
Lit(s, p, lit) ==
    /\ p >= 1
    /\ p + Len(lit) - 1 <= Len(s)
    /\ SubSeq(s, p, p + Len(lit) - 1) = lit

\* A dot without re.DOTALL: one character that is not a newline.
Dot(s, p) == p >= 1 /\ p <= Len(s) /\ s[p] # "\n"

RECURSIVE Flatten(_)
Flatten(ss) == IF ss = <<>> THEN <<>> ELSE Head(ss) \o Flatten(Tail(ss))

\* open(file, 'r') reads with universal newlines: a carriage return with
\* the newline after it, or a carriage return alone, is read as one newline.
RECURSIVE universal_newlines(_)
universal_newlines(text) ==
    IF text = <<>> THEN <<>>
    ELSE IF text[1] = "\r"
         THEN IF Len(text) >= 2 /\ text[2] = "\n"
              THEN NL \o universal_newlines(SubSeq(text, 3, Len(text)))
              ELSE NL \o universal_newlines(Tail(text))
    ELSE <<text[1]>> \o universal_newlines(Tail(text))

\* The text cut after every newline; a last line without a newline is kept,
\* an empty remainder is not a line.
RECURSIVE split_lines(_)
split_lines(text) ==
    IF text = <<>> THEN <<>>
    ELSE LET n == SpanNot(text, 1, {"\n"})
         IN IF n = Len(text) THEN <<text>>
            ELSE <<SubSeq(text, 1, n + 1)>>
                     \o split_lines(SubSeq(text, n + 2, Len(text)))

\* Line 123, booklist_file.readlines() on a file of the bytes of text.
readlines(text) == split_lines(universal_newlines(text))

-----------------------------------------------------------------------------
(* Step 2: re.search in a line for a digit run that starts with 1-9,       *)
(* anchored by a caret, then a period and a space (line 130).  The caret   *)
(* without re.MULTILINE matches only at the                                *)
(* start of the string, so the search can only match at position 1.  After *)
(* the greedy digit run comes a character that is no digit, so giving      *)
(* digits back never lets the period match: the greedy run is the only     *)
(* candidate.                                                              *)

\* Faulty variant: the pattern ^[1-9] then a period and a space, which takes
\* one digit only.
entry_number_match_one_digit(line) ==
    /\ Len(line) >= 1
    /\ line[1] \in NonZeroDigits
    /\ Lit(line, 2, <<".", " ">>)

entry_number_match(line) ==
    /\ Len(line) >= 1
    /\ line[1] \in NonZeroDigits
    /\ Lit(line, 1 + Span(line, 1, Digits), <<".", " ">>)

-----------------------------------------------------------------------------
(* Step 3: entry_regex, group by group.  Each Match operator takes the     *)
(* text and the position where the group is tried and returns None or      *)
(* Some of the captures and the position after the match.                  *)

\* (?P<id>^[1-9]+[0-9]*)\.   One candidate only, as in entry_number_match.
MatchId(s) ==
    IF Len(s) >= 1 /\ s[1] \in NonZeroDigits
          /\ Lit(s, 1 + Span(s, 1, Digits), <<".">>)
    THEN LET d == Span(s, 1, Digits)
         IN Some([id |-> SubSeq(s, 1, d), end |-> d + 2])
    ELSE None

\* \s*   Greedy.  What follows a \s* in entry_regex either starts with a
\* character that is no whitespace or may match the empty string, so a
\* shorter run is never tried with success.
SkipSpace(s, p) == p + Span(s, p, Whitespace)

\* \*\*\[(?P<title1>[^\]]*)\]\((?P<link>.+)\).\*\*
\* [^\]]* is greedy, then .+ is greedy: the longest title1, and for it the
\* longest link, after which a closing parenthesis, any character and two
\* asterisks follow.
MatchTitleLink(s, p) ==
    IF ~Lit(s, p, <<"*", "*", "[">>) THEN None
    ELSE
      LET t == p + 3
          LinkLens(n) ==
              {l \in 1..SpanNot(s, t + n + 2, {"\n"}) :
                  /\ Lit(s, t + n + 2 + l, <<")">>)
                  /\ Dot(s, t + n + 3 + l)
                  /\ Lit(s, t + n + 4 + l, <<"*", "*">>)}
          TitleLens ==
              {n \in 0..SpanNot(s, t, {"]"}) :
                  /\ Lit(s, t + n, <<"]", "(">>)
                  /\ LinkLens(n) # {}}
      IN IF TitleLens = {} THEN None
         ELSE LET n == Max(TitleLens)
                  l == Max(LinkLens(n))
              IN Some([title1 |-> SubSeq(s, t, t + n - 1),
                       link   |-> SubSeq(s, t + n + 2, t + n + 1 + l),
                       end    |-> t + n + 6 + l])

\* \*\*(?P<title2>[^*]*).\*\*
\* The longest title2 after which any character and two asterisks follow.
MatchTitlePlain(s, p) ==
    IF ~Lit(s, p, <<"*", "*">>) THEN None
    ELSE
      LET t == p + 2
          TitleLens ==
              {n \in 0..SpanNot(s, t, {"*"}) :
                  /\ Dot(s, t + n)
                  /\ Lit(s, t + n + 1, <<"*", "*">>)}
      IN IF TitleLens = {} THEN None
         ELSE LET n == Max(TitleLens)
              IN Some([title2 |-> SubSeq(s, t, t + n - 1),
                       end    |-> t + n + 3])

\* (?: (?P<year>[0-9]{4,4})\.)?   The group itself; None when it is skipped.
MatchYear(s, p) ==
    IF Span(s, p, Digits) >= 4 /\ Lit(s, p + 4, <<".">>)
    THEN Some([year |-> SubSeq(s, p, p + 3), end |-> p + 5])
    ELSE None

\* (?: (?P<pages>[0-9]+)\s+pages\.)?   The digit run and the whitespace run
\* are each followed by a character outside their class: greedy only.
MatchPages(s, p) ==
    LET d == Span(s, p, Digits)
        w == Span(s, p + d, Whitespace)
        word == <<"p", "a", "g", "e", "s", ".">>
    IN IF d >= 1 /\ w >= 1 /\ Lit(s, p + d + w, word)
       THEN Some([pages |-> SubSeq(s, p, p + d - 1), end |-> p + d + w + 6])
       ELSE None

\* Faulty variant: the rest of the text without one final newline.
MatchDescription_one_newline(s, p) ==
    LET last == IF Len(s) >= p /\ s[Len(s)] = "\n" THEN Len(s) - 1 ELSE Len(s)
    IN IF last < p THEN None
       ELSE Some([description |-> SubSeq(s, p, last), end |-> last + 1])

\* (?s: (?P<description>.*[^\n]) )?   With DOTALL the .* runs to the end of the
\* text and gives back until the last character that is no newline.
MatchDescription(s, p) ==
    LET ends == {q \in p..Len(s) : s[q] # "\n"}
    IN IF ends = {} THEN None
       ELSE Some([description |-> SubSeq(s, p, Max(ends)),
                  end |-> Max(ends) + 1])

\* entry_regex.search(entry).groupdict(): None when the pattern does not
\* match, else the six named groups, None for a group that took no part.
\* Everything after the title is optional, so once the title has matched
\* the first (greedy) choice of every later group stands.
entry_regex_search(s) ==
    LET mid == MatchId(s)
    IN IF mid = None THEN None
       ELSE
         LET p1 == SkipSpace(s, mid[1].end)
             tl == MatchTitleLink(s, p1)
             tp == IF tl = None THEN MatchTitlePlain(s, p1) ELSE None
         IN IF tl = None /\ tp = None THEN None
            ELSE
              LET p2 == SkipSpace(s, IF tl # None THEN tl[1].end ELSE tp[1].end)
                  my == MatchYear(s, p2)
                  p3 == SkipSpace(s, IF my # None THEN my[1].end ELSE p2)
                  mp == MatchPages(s, p3)
                  p4 == SkipSpace(s, IF mp # None THEN mp[1].end ELSE p3)
                  md == MatchDescription(s, p4)
              IN Some([id          |-> Some(mid[1].id),
                       title1      |-> IF tl # None THEN Some(tl[1].title1) ELSE None,
                       link        |-> IF tl # None THEN Some(tl[1].link) ELSE None,
                       title2      |-> IF tp # None THEN Some(tp[1].title2) ELSE None,
                       year        |-> IF my # None THEN Some(my[1].year) ELSE None,
                       pages       |-> IF mp # None THEN Some(mp[1].pages) ELSE None,
                       description |-> IF md # None THEN Some(md[1].description) ELSE None])

-----------------------------------------------------------------------------
(* Step 3, lines 174-179: the groupdict with title1 and title2 folded into *)
(* title.  calibre_id is the key that step 4 adds; None while it is absent.*)

\* Faulty variant: the title is taken from title2 alone.
normalize_title2_only(gd) ==
    [id          |-> gd.id,
     link        |-> gd.link,
     year        |-> gd.year,
     pages       |-> gd.pages,
     description |-> gd.description,
     title       |-> gd.title2,
     calibre_id  |-> None]

normalize(gd) ==
    [id          |-> gd.id,
     link        |-> gd.link,
     year        |-> gd.year,
     pages       |-> gd.pages,
     description |-> gd.description,
     title       |-> IF gd.title1 # None THEN gd.title1 ELSE gd.title2,
     calibre_id  |-> None]

\* Faulty variant: an entry that does not match leaves a dict with no fields.
extract_entry_partial(dicts, e) ==
    LET match == entry_regex_search(e)
    IN IF match = None
       THEN Append(dicts, [id |-> None, link |-> None, year |-> None,
                           pages |-> None, description |-> None,
                           title |-> None, calibre_id |-> None])
       ELSE Append(dicts, normalize(match[1]))

\* Lines 168-184, the body of the extraction loop: the list of dicts after
\* one entry has been handled.
extract_entry(dicts, e) ==
    LET match == entry_regex_search(e)
    IN IF match = None THEN dicts
       ELSE Append(dicts, normalize(match[1]))

-----------------------------------------------------------------------------
(* Step 4: the argument renderers and the two calibredb invocations.  An   *)
(* argument list is a tuple of tokens; a flag is a string, a value is text.*)

\* Fixed texts of the script.
PUBDATE == <<"p", "u", "b", "d", "a", "t", "e", ":">>
JAN1 == <<"-", "0", "1", "-", "0", "1">>
PAGES == <<"#", "p", "a", "g", "e", "s", ":">>
DOTPDF == <<".", "p", "d", "f">>
DOTEPUB == <<".", "e", "p", "u", "b">>
LINKPDF == <<"#", "l", "i", "n", "k", "_", "p", "d", "f", ":">>
LINKEPUB == <<"#", "l", "i", "n", "k", "_", "e", "p", "u", "b", ":">>
LINKMETA == <<"#", "l", "i", "n", "k", "_", "m", "e", "t", "a", ":">>
ADDED == <<"A", "d", "d", "e", "d", " ", "b", "o", "o", "k", " ", "i", "d", "s", ":">>

calibredb_title_args(dict) ==
    IF dict.title # None THEN <<"--title", dict.title[1]>> ELSE <<>>

\* Whether calibredb_title_args logs its error for this dict (line 68).
title_arg_error(dict) == dict.title = None

calibredb_pubdate_args(dict) ==
    IF dict.year # None
    THEN <<"--field", PUBDATE \o dict.year[1] \o JAN1>>
    ELSE <<>>

calibredb_pages_args(dict) ==
    IF dict.pages # None
    THEN <<"--field", PAGES \o dict.pages[1]>>
    ELSE <<>>

\* str.endswith
endswith(s, suffix) ==
    Len(s) >= Len(suffix) /\ SubSeq(s, Len(s) - Len(suffix) + 1, Len(s)) = suffix

calibredb_link_args(dict) ==
    IF dict.link = None THEN <<>>
    ELSE IF endswith(dict.link[1], DOTPDF)
         THEN <<"--field", LINKPDF \o dict.link[1]>>
    ELSE IF endswith(dict.link[1], DOTEPUB)
         THEN <<"--field", LINKEPUB \o dict.link[1]>>
    ELSE <<"--field", LINKMETA \o dict.link[1]>>

\* markdown.markdown is a library outside the repository: the rendered HTML
\* is kept as the pair of the marker and the Markdown text it was made of.
calibredb_comments_args(dict) ==
    IF dict.description # None
    THEN <<"--field", <<"comments:<div>markdown</div>", dict.description[1]>> >>
    ELSE <<>>

\* re.findall(r'Added book ids:\s+([0-9]+)', stdout), line 208: the digit
\* runs captured by the matches from position p on, in the order of their
\* positions.  \s+ and [0-9]+ are greedy and a match holds one capital A,
\* so matches never overlap.
RECURSIVE findall_ids(_, _)
findall_ids(out, p) ==
    IF p > Len(out) THEN <<>>
    ELSE LET w == Span(out, p + Len(ADDED), Whitespace)
             d == Span(out, p + Len(ADDED) + w, Digits)
         IN IF Lit(out, p, ADDED) /\ w >= 1 /\ d >= 1
            THEN <<SubSeq(out, p + Len(ADDED) + w, p + Len(ADDED) + w + d - 1)>>
                     \o findall_ids(out, p + Len(ADDED) + w + d)
            ELSE findall_ids(out, p + 1)

\* Faulty variant: the last identifier of the output.
calibre_id_of_last(stdout) ==
    LET found == findall_ids(stdout, 1)
    IN IF found = <<>> THEN None ELSE Some(found[Len(found)])

\* Faulty variant: identifier 0 when the output reports none.
calibre_id_of_default(stdout) ==
    LET found == findall_ids(stdout, 1)
    IN IF found = <<>> THEN Some(<<"0">>) ELSE Some(found[1])

\* Line 208: the first identifier of the captured output; None stands for
\* the IndexError that [0] raises on an empty list.
calibre_id_of(stdout) ==
    LET found == findall_ids(stdout, 1)
    IN IF found = <<>> THEN None ELSE Some(found[1])

\* Lines 195-207: the argument list of the add invocation.
add_args(dict) ==
    <<"calibredb", "--library-path", "CALIBREDB_DIR", "add", "--empty">>
        \o calibredb_title_args(dict)
        \o <<"--authors", "Unknown Author">>

\* Lines 212-222: the argument list of the set_metadata invocation.
set_metadata_args(dict) ==
    <<"calibredb", "--library-path", "CALIBREDB_DIR", "set_metadata">>
        \o calibredb_pubdate_args(dict)
        \o calibredb_pages_args(dict)
        \o calibredb_link_args(dict)
        \o calibredb_comments_args(dict)
        \o <<dict.calibre_id[1]>>

-----------------------------------------------------------------------------
(* Inputs.  Spec reads a file of up to MaxLines lines drawn from Lines;     *)
(* the line of text ends in a carriage return and a newline in the file.   *)

LineBlank == NL
LineSpaces == <<" ", "\n">>
LineEntry == <<"1", ".", " ", "*", "*", "A", ".", "*", "*", "\n">>
LineEntryLink == <<"2", ".", " ", "*", "*", "[", "B", "]", "(", "u", ")", ".", "*", "*", "\n">>
LineEntryZero == <<"0", "5", ".", " ", "*", "*", "C", ".", "*", "*", "\n">>
LineNumbered == <<"1", "2", ".", " ", "x", "\n">>
LineText == <<"x", "\r", "\n">>

Lines == {LineBlank, LineSpaces, LineEntry, LineEntryLink, LineEntryZero,
          LineNumbered, LineText}

RECURSIVE SeqsUpTo(_, _)
SeqsUpTo(S, n) ==
    IF n = 0 THEN {<<>>}
    ELSE LET shorter == SeqsUpTo(S, n - 1)
         IN shorter \cup {Append(s, x) : s \in {q \in shorter : Len(q) = n - 1}, x \in S}

(* SpecForm reads a file that holds one entry of the list format: id,      *)
(* period, space, title in one of its two forms, then optionally a year,   *)
(* a page count and a description after a space, a newline, a vertical    *)
(* tab or an em space, then 0..MaxTrail newlines.                          *)

FormIds == {<<"5">>, <<"1", "0">>}
FormText1 == <<"F", "o", "o">>
FormUrl == <<"b", "a", "r", ".", "p", "d", "f">>
FormText2 == <<"B", "a", "r">>
FormYear == <<"2", "0", "0", "1">>
FormPages == <<"4", "2">>
DescPlain == <<"S", "o", "m", "e", " ", "t", "e", "x", "t", ".">>
DescBlankLine == <<"a", "\n", "\n", "b">>
DescBoldLink == <<"S", "e", "e", " ", "*", "*", "[", "B", "]", "(", "c", ")", ".", "*", "*">>
DescSpaceEnd == <<"e", "n", "d", "s", " ">>
FormDescs == {DescPlain, DescBlankLine, DescBoldLink, DescSpaceEnd}

EmSpace == "U+2003"

Forms ==
    [id    : FormIds,
     kind  : {"link", "plain"},
     year  : {None, Some(FormYear)},
     pages : {None, Some(FormPages)},
     sep   : {<<" ">>, NL, <<VT>>, <<EmSpace>>},
     desc  : {Some(d) : d \in FormDescs},
     trail : 0..MaxTrail]
    \cup
    [id    : FormIds,
     kind  : {"link", "plain"},
     year  : {None, Some(FormYear)},
     pages : {None, Some(FormPages)},
     sep   : {<<>>},
     desc  : {None},
     trail : 0..MaxTrail]

RECURSIVE Newlines(_)
Newlines(n) == IF n = 0 THEN <<>> ELSE NL \o Newlines(n - 1)

FormTitleText(f) == IF f.kind = "link" THEN FormText1 ELSE FormText2

FormTitle(f) ==
    IF f.kind = "link"
    THEN <<"*", "*", "[">> \o FormText1 \o <<"]", "(">> \o FormUrl
             \o <<")", ".", "*", "*">>
    ELSE <<"*", "*">> \o FormText2 \o <<".", "*", "*">>

\* The text of the file for form f.
FormFile(f) ==
    f.id \o <<".", " ">> \o FormTitle(f)
        \o (IF f.year # None THEN <<" ">> \o f.year[1] \o <<".">> ELSE <<>>)
        \o (IF f.pages # None
            THEN <<" ">> \o f.pages[1] \o <<" ", "p", "a", "g", "e", "s", ".">>
            ELSE <<>>)
        \o (IF f.desc # None THEN f.sep \o f.desc[1] ELSE <<>>)
        \o Newlines(f.trail)

\* The captured standard output of calibredb add: nothing, one report, or
\* two reports.
StdoutEmpty == <<>>
StdoutOne == ADDED \o <<" ", "7", "\n">>
StdoutTwo == ADDED \o <<" ", "8", "\n">> \o ADDED \o <<" ", "7", "\n">>
Stdouts == {StdoutEmpty, StdoutOne, StdoutTwo}

-----------------------------------------------------------------------------
(* The script.                                                             *)

\* Lines 123-128 and 148: the state after the file has been read.
InitRest ==
    /\ pc = "segment"
    /\ i = 1
    /\ last_line_empty = FALSE
    /\ booklist_entries = <<>>
    /\ entry = <<>>
    /\ j = 1
    /\ booklist_dicts = <<>>
    /\ k = 1
    /\ calls = <<>>
    /\ title_errors = <<>>

Init ==
    /\ form = None
    /\ booklist_lines \in
          {readlines(Flatten(file)) : file \in SeqsUpTo(Lines, MaxLines)}
    /\ InitRest

InitForm ==
    /\ form \in {Some(f) : f \in Forms}
    /\ booklist_lines = readlines(FormFile(form[1]))
    /\ InitRest

\* Faulty variant: a line of whitespace counts as empty.
is_empty_line_strip(line) == \A n \in 1..Len(line) : line[n] \in Whitespace

\* Line 140: the test that sets last_line_empty.
is_empty_line(line) == line = NL

\* Faulty variant: every numbered line starts a new entry.
is_split_any_number(last_empty, line) == entry_number_match(line)

\* Line 132: the condition under which a line starts a new entry.
is_split(last_empty, line) == last_empty /\ entry_number_match(line)

\* Lines 129-140: one iteration of the segmenter loop.
SegmentLine ==
    /\ pc = "segment"
    /\ i <= Len(booklist_lines)
    /\ LET line == booklist_lines[i]
       IN /\ booklist_entries' =
                 IF is_split(last_line_empty, line)
                 THEN Append(booklist_entries, entry)
                 ELSE booklist_entries
          /\ entry' = IF is_split(last_line_empty, line) THEN line
                      ELSE entry \o line
          /\ last_line_empty' = is_empty_line(line)
    /\ i' = i + 1
    /\ UNCHANGED <<form, booklist_lines, pc, j, booklist_dicts, k, calls,
                   title_errors>>

\* Faulty variant: an empty last entry is not emitted.
SegmentFinish_skip_empty ==
    /\ pc = "segment"
    /\ i > Len(booklist_lines)
    /\ booklist_entries' = IF entry = <<>> THEN booklist_entries
                           ELSE Append(booklist_entries, entry)
    /\ pc' = "extract"
    /\ UNCHANGED <<form, booklist_lines, i, last_line_empty, entry, j,
                   booklist_dicts, k, calls, title_errors>>

\* Lines 141-145: the last entry of the file, after the loop.
SegmentFinish ==
    /\ pc = "segment"
    /\ i > Len(booklist_lines)
    /\ booklist_entries' = Append(booklist_entries, entry)
    /\ pc' = "extract"
    /\ UNCHANGED <<form, booklist_lines, i, last_line_empty, entry, j,
                   booklist_dicts, k, calls, title_errors>>

\* Lines 167-184: one iteration of the extraction loop; entry is the loop
\* variable.
ExtractEntry ==
    /\ pc = "extract"
    /\ j <= Len(booklist_entries)
    /\ entry' = booklist_entries[j]
    /\ booklist_dicts' = extract_entry(booklist_dicts, booklist_entries[j])
    /\ j' = j + 1
    /\ UNCHANGED <<form, booklist_lines, pc, i, last_line_empty,
                   booklist_entries, k, calls, title_errors>>

\* Line 187: the extraction loop is over.
ExtractFinish ==
    /\ pc = "extract"
    /\ j > Len(booklist_entries)
    /\ pc' = "import"
    /\ UNCHANGED <<form, booklist_lines, i, last_line_empty, booklist_entries,
                   entry, j, booklist_dicts, k, calls, title_errors>>

\* Lines 190-209: calibredb add for the k-th dict, and the identifier read
\* from its output.  With no identifier in the output, [0] raises IndexError
\* and the script ends.
ImportAdd ==
    /\ pc = "import"
    /\ k <= Len(booklist_dicts)
    /\ \E stdout \in Stdouts :
          /\ calls' = Append(calls, [cmd    |-> "add",
                                     rec    |-> k,
                                     args   |-> add_args(booklist_dicts[k]),
                                     stdout |-> stdout])
          /\ IF calibre_id_of(stdout) = None
             THEN /\ pc' = "crashed"
                  /\ UNCHANGED booklist_dicts
             ELSE /\ pc' = "set_metadata"
                  /\ booklist_dicts' =
                        [booklist_dicts EXCEPT ![k].calibre_id = calibre_id_of(stdout)]
    /\ title_errors' = IF title_arg_error(booklist_dicts[k])
                       THEN Append(title_errors, booklist_dicts[k].id)
                       ELSE title_errors
    /\ UNCHANGED <<form, booklist_lines, i, last_line_empty, booklist_entries,
                   entry, j, k>>

\* Lines 211-223: calibredb set_metadata for the k-th dict; its output and
\* exit status are not looked at.
ImportSetMetadata ==
    /\ pc = "set_metadata"
    /\ calls' = Append(calls, [cmd    |-> "set_metadata",
                               rec    |-> k,
                               args   |-> set_metadata_args(booklist_dicts[k]),
                               stdout |-> <<>>])
    /\ k' = k + 1
    /\ pc' = "import"
    /\ UNCHANGED <<form, booklist_lines, i, last_line_empty, booklist_entries,
                   entry, j, booklist_dicts, title_errors>>

\* End of the script after the import loop.
ImportFinish ==
    /\ pc = "import"
    /\ k > Len(booklist_dicts)
    /\ pc' = "done"
    /\ UNCHANGED <<form, booklist_lines, i, last_line_empty, booklist_entries,
                   entry, j, booklist_dicts, k, calls, title_errors>>

Next ==
    \/ SegmentLine
    \/ SegmentFinish
    \/ ExtractEntry
    \/ ExtractFinish
    \/ ImportAdd
    \/ ImportSetMetadata
    \/ ImportFinish

\* The script on a file of free lines.
Spec == Init /\ [][Next]_vars

\* The script on a file that holds one entry of the list format.
SpecForm == InitForm /\ [][Next]_vars

-----------------------------------------------------------------------------
(* Vocabulary of the properties, stated on the input and not through the   *)
(* script's own operators.                                                 *)

\* A line that begins with one or more digits, a period and a space.
BeginsNumber(line) ==
    /\ Span(line, 1, Digits) >= 1
    /\ Lit(line, 1 + Span(line, 1, Digits), <<".", " ">>)

\* An entry of the list: a numbered line whose number is followed by the
\* bold title marker.
IsEntryLine(line) ==
    /\ BeginsNumber(line)
    /\ Lit(line, 3 + Span(line, 1, Digits), <<"*", "*">>)

EntryIdx == {n \in 1..Len(booklist_lines) : IsEntryLine(booklist_lines[n])}
NumEntries == Cardinality(EntryIdx)

\* The line index of the b-th entry of the file, and of its last line.
EntryStart(b) ==
    CHOOSE n \in EntryIdx : Cardinality({m \in EntryIdx : m < n}) = b - 1
EntryEnd(b) ==
    IF b = NumEntries THEN Len(booklist_lines) ELSE EntryStart(b + 1) - 1

LinesText(a, b) == Flatten(SubSeq(booklist_lines, a, b))

\* Every entry that has a line before it has the empty line before it.
EntriesFollowBlank ==
    \A n \in EntryIdx : n > 1 => booklist_lines[n - 1] = NL

Segmented == pc # "segment"

-----------------------------------------------------------------------------
(* C1 as stated: in a file with entries, each begun by a number, period    *)
(* and space and preceded by an empty line where a line precedes it, the   *)
(* segmenter yields as many blocks as there are entries and the b-th block *)
(* begins with the b-th entry's line.                                      *)
C1_BlockPerEntry_AsStated ==
    (Segmented /\ EntryIdx # {} /\ EntriesFollowBlank) =>
        /\ Len(booklist_entries) = NumEntries
        /\ \A b \in 1..NumEntries :
              Lit(booklist_entries[b], 1, booklist_lines[EntryStart(b)])

(* C1 amended: if moreover no entry number starts with 0 and no other line *)
(* that follows an empty line begins with a number, the segmenter yields   *)
(* one block per entry, each holding exactly the lines from its entry to   *)
(* the next, plus one leading block for the lines before the first entry   *)
(* when the file does not start with an entry.                             *)
C1_Precondition ==
    /\ EntryIdx # {}
    /\ EntriesFollowBlank
    /\ \A n \in EntryIdx : booklist_lines[n][1] # "0"
    /\ \A n \in 2..Len(booklist_lines) :
          (n \notin EntryIdx /\ booklist_lines[n - 1] = NL)
              => ~BeginsNumber(booklist_lines[n])

C1_BlockPerEntry ==
    (Segmented /\ C1_Precondition) =>
        LET lead == IF 1 \in EntryIdx THEN 0 ELSE 1
        IN /\ Len(booklist_entries) = NumEntries + lead
           /\ lead = 1 => booklist_entries[1] = LinesText(1, EntryStart(1) - 1)
           /\ \A b \in 1..NumEntries :
                 booklist_entries[b + lead] = LinesText(EntryStart(b), EntryEnd(b))

\* Two entries after a leading empty line have been segmented.
C1_Witness ==
    /\ Segmented
    /\ C1_Precondition
    /\ NumEntries = 2
    /\ 1 \notin EntryIdx
    /\ Len(booklist_entries) = 3

-----------------------------------------------------------------------------
(* C2: a step of the segmenter loop at a line whose preceding line is not  *)
(* exactly the empty line (or that has no preceding line) emits no block   *)
(* and appends the line to the current block.                              *)
C2_SplitGuard ==
    [][(/\ pc = "segment"
        /\ i <= Len(booklist_lines)
        /\ ~(i > 1 /\ booklist_lines[i - 1] = NL))
       => (/\ booklist_entries' = booklist_entries
           /\ entry' = entry \o booklist_lines[i])]_vars

\* Numbered lines were appended to the first block: as first line, after a
\* line of text and after a line of spaces.
C2_Witness ==
    /\ pc = "segment"
    /\ i = 5
    /\ booklist_lines = <<LineNumbered, LineSpaces, LineEntry, LineNumbered>>
    /\ booklist_entries = <<>>
    /\ entry = LinesText(1, 4)

-----------------------------------------------------------------------------
(* C7 as stated: a step of the segmenter loop at a line that begins with   *)
(* one or more digits, a period and a space and follows the empty line     *)
(* emits the buffer as a block and starts the new buffer with the line,    *)
(* whatever the first digit.                                               *)
C7_SplitTrigger_AsStated ==
    [][(/\ pc = "segment"
        /\ i <= Len(booklist_lines)
        /\ i > 1
        /\ booklist_lines[i - 1] = NL
        /\ BeginsNumber(booklist_lines[i]))
       => (/\ booklist_entries' = Append(booklist_entries, entry)
           /\ entry' = booklist_lines[i])]_vars

(* C7 amended: the same for every digit string whose first digit is not 0; *)
(* a line whose number starts with 0 is appended to the current block.     *)
C7_SplitTrigger ==
    [][(/\ pc = "segment"
        /\ i <= Len(booklist_lines)
        /\ i > 1
        /\ booklist_lines[i - 1] = NL
        /\ BeginsNumber(booklist_lines[i]))
       => IF booklist_lines[i][1] # "0"
          THEN /\ booklist_entries' = Append(booklist_entries, entry)
               /\ entry' = booklist_lines[i]
          ELSE /\ booklist_entries' = booklist_entries
               /\ entry' = entry \o booklist_lines[i]]_vars

\* The two-digit numbered line has just started a block after the empty line.
C7_Witness ==
    /\ pc = "segment"
    /\ i >= 3
    /\ booklist_lines[i - 1] = LineNumbered
    /\ booklist_lines[i - 2] = NL
    /\ entry = LineNumbered
    /\ Len(booklist_entries) >= 1

-----------------------------------------------------------------------------
(* C9: during the segmenter loop the emitted blocks followed by the buffer *)
(* are the lines consumed so far; afterwards the blocks concatenated are   *)
(* the whole file and there is at least one block; every block but the     *)
(* first begins with a numbered line.                                      *)
C9_LosslessPartition ==
    /\ pc = "segment" =>
          Flatten(booklist_entries) \o entry = LinesText(1, i - 1)
    /\ Segmented =>
          /\ Flatten(booklist_entries) = LinesText(1, Len(booklist_lines))
          /\ Len(booklist_entries) >= 1
    /\ \A b \in 2..Len(booklist_entries) : BeginsNumber(booklist_entries[b])

\* A file of four lines has been cut into three blocks.
C9_Witness ==
    /\ Segmented
    /\ Len(booklist_lines) = 4
    /\ Len(booklist_entries) = 3

-----------------------------------------------------------------------------
(* C6: a block on which entry_regex does not match leaves no record and    *)
(* does not stop the loop: the records are those of the matching blocks    *)
(* handled so far, in the order of the blocks, each with its id and title, *)
(* and every block has been handled when the import begins.                *)
Matches(e) == entry_regex_search(e) # None

C6_SkipAndContinue ==
    Segmented =>
        LET handled == SubSeq(booklist_entries, 1, j - 1)
            matching == SelectSeq(handled, Matches)
        IN /\ Len(booklist_dicts) = Len(matching)
           /\ \A n \in 1..Len(booklist_dicts) :
                 /\ booklist_dicts[n].id # None
                 /\ booklist_dicts[n].id = entry_regex_search(matching[n])[1].id
                 /\ booklist_dicts[n].description
                        = entry_regex_search(matching[n])[1].description
           /\ pc # "extract" => j = Len(booklist_entries) + 1

\* A block that does not match was followed by one that does, and the
\* script ran to its end.
C6_Witness ==
    /\ pc = "done"
    /\ Len(booklist_dicts) >= 1
    /\ \E a, b \in 1..Len(booklist_entries) :
          a < b /\ ~Matches(booklist_entries[a]) /\ Matches(booklist_entries[b])

-----------------------------------------------------------------------------
(* C10: every record has a title that is a string, every add invocation    *)
(* carries --title and the title of its record, and calibredb_title_args   *)
(* never logs its error.                                                   *)
C10_TitleNeverAbsent ==
    /\ \A n \in 1..Len(booklist_dicts) : booklist_dicts[n].title # None
    /\ \A n \in 1..Len(calls) :
          calls[n].cmd = "add" =>
              /\ Len(calls[n].args) = 9
              /\ calls[n].args[6] = "--title"
              /\ Some(calls[n].args[7]) = booklist_dicts[calls[n].rec].title
    /\ title_errors = <<>>

TitleA == <<"A">>
TitleB == <<"B">>

\* A record of each title form has been added.
C10_Witness ==
    /\ pc = "done"
    /\ \E m, n \in 1..Len(calls) :
          /\ calls[m].cmd = "add" /\ calls[m].args[7] = TitleA
          /\ calls[n].cmd = "add" /\ calls[n].args[7] = TitleB
    /\ \E m, n \in 1..Len(booklist_dicts) :
          /\ booklist_dicts[m].link = None
          /\ booklist_dicts[n].link # None

-----------------------------------------------------------------------------
(* C4: the invocations are add(1), set_metadata(1), add(2), ... over the   *)
(* records in their order; set_metadata gets as its last argument the      *)
(* first identifier reported in the output of the add just before it.      *)

\* The first identifier that an output of Stdouts reports.
FirstReported(stdout) ==
    IF stdout = StdoutOne THEN Some(<<"7">>)
    ELSE IF stdout = StdoutTwo THEN Some(<<"8">>)
    ELSE None

C4_CallOrder ==
    /\ \A n \in 1..Len(calls) :
          /\ calls[n].rec = (n + 1) \div 2
          /\ calls[n].rec <= Len(booklist_dicts)
          /\ n % 2 = 1 =>
                /\ calls[n].cmd = "add"
                /\ Some(calls[n].args[7]) = booklist_dicts[calls[n].rec].title
          /\ n % 2 = 0 =>
                /\ calls[n].cmd = "set_metadata"
                /\ Some(calls[n].args[Len(calls[n].args)])
                       = FirstReported(calls[n - 1].stdout)
    /\ (pc = "set_metadata") <=> (Len(calls) % 2 = 1 /\ pc # "crashed")
    /\ Len(calls) % 2 = 1 => k = (Len(calls) + 1) \div 2
    /\ Len(calls) % 2 = 0 => k = Len(calls) \div 2 + 1
    /\ pc = "done" => Len(calls) = 2 * Len(booklist_dicts)

\* Two records were imported under different identifiers.
C4_Witness ==
    /\ pc = "done"
    /\ Len(calls) = 4
    /\ calls[2].args[Len(calls[2].args)] = <<"8">>
    /\ calls[4].args[Len(calls[4].args)] = <<"7">>

-----------------------------------------------------------------------------
(* C5: an add whose output reports no identifier is the last invocation    *)
(* and ends the script: no set_metadata for that record, nothing for later *)
(* records, while the invocations for the records before it stand.         *)
C5_FatalAbort ==
    /\ \A n \in 1..Len(calls) :
          (calls[n].cmd = "add" /\ calls[n].stdout = StdoutEmpty)
              => (n = Len(calls) /\ pc = "crashed")
    /\ pc = "crashed" =>
          /\ ~ENABLED Next
          /\ k <= Len(booklist_dicts)
          /\ Len(calls) = 2 * (k - 1) + 1
          /\ calls[Len(calls)].cmd = "add"
          /\ calls[Len(calls)].rec = k
          /\ calls[Len(calls)].stdout = StdoutEmpty
          /\ booklist_dicts[k].calibre_id = None
          /\ \A r \in 1..(k - 1) :
                /\ calls[2 * r - 1].cmd = "add"
                /\ calls[2 * r - 1].rec = r
                /\ calls[2 * r].cmd = "set_metadata"
                /\ calls[2 * r].rec = r

\* The add of the second record reported no identifier.
C5_Witness ==
    /\ pc = "crashed"
    /\ k = 2
    /\ Len(calls) = 3
    /\ Len(booklist_dicts) >= 2

-----------------------------------------------------------------------------
(* Expected fields of a file drawn from Forms.                             *)

FormLink(f) == IF f.kind = "link" THEN Some(FormUrl) ELSE None

\* The record's id, title, link, year and page count are those of the form.
HeadAsWritten(d, f) ==
    /\ d.id = Some(f.id)
    /\ d.title = Some(FormTitleText(f))
    /\ d.link = FormLink(f)
    /\ d.year = f.year
    /\ d.pages = f.pages

Extracted == form # None /\ Segmented /\ j > 1

(* C3 as stated: for every file of the list format, with any subset of     *)
(* year, page count and description present, extraction matches and gives  *)
(* id, title, link (None for the form without link) and each optional      *)
(* field with its value, None when it is absent.                           *)
C3_FieldExtraction_AsStated ==
    Extracted =>
        /\ Len(booklist_dicts) = 1
        /\ HeadAsWritten(booklist_dicts[1], form[1])
        /\ booklist_dicts[1].description = form[1].desc

(* C3 outside the greedy link: every form but the link form whose         *)
(* description stands on the title line and itself holds a bold link       *)
(* extracts as C3 states.                                                  *)
C3_FieldExtraction_Elsewhere ==
    (/\ Extracted
     /\ ~(/\ form[1].kind = "link"
          /\ form[1].sep # NL
          /\ form[1].desc = Some(DescBoldLink)))
    => /\ Len(booklist_dicts) = 1
       /\ HeadAsWritten(booklist_dicts[1], form[1])
       /\ booklist_dicts[1].description = form[1].desc

-----------------------------------------------------------------------------
(* C8 as stated: when text is left after id, title, year and page count,   *)
(* the description is that text with exactly one final newline removed if  *)
(* the block ends in a newline.                                            *)
C8_Case ==
    /\ Extracted
    /\ form[1].desc # None
    /\ Len(booklist_dicts) = 1
    /\ HeadAsWritten(booklist_dicts[1], form[1])

C8_DescriptionTrim_AsStated ==
    C8_Case =>
        booklist_dicts[1].description =
            Some(form[1].desc[1]
                 \o Newlines(IF form[1].trail >= 1 THEN form[1].trail - 1 ELSE 0))

(* C8 amended: the description is that text with all its final newlines    *)
(* removed, however many; no other character is removed and blank lines    *)
(* inside the description are kept.                                        *)
C8_DescriptionTrim ==
    C8_Case => booklist_dicts[1].description = form[1].desc

\* A description with a blank line inside, followed by two newlines, was
\* extracted without them.
C8_Witness ==
    /\ C8_Case
    /\ form[1].trail = 2
    /\ form[1].desc = Some(DescBlankLine)
    /\ booklist_dicts[1].description = Some(DescBlankLine)

=============================================================================
